---- MODULE Spec2Model ----
(***************************************************************************)
(* The Socket.io chat server of server/server.js as a state machine.       *)
(*                                                                         *)
(* One action per socket event handler.  A handler runs to completion on   *)
(* Node's single thread, so every action is the whole handler.  The state  *)
(* is the server's module-level stores (users, messages, typingUsers), the *)
(* Socket.io adapter's room memberships, and the wall clock that supplies  *)
(* message ids.  The events a handler emits, its acknowledgment and the    *)
(* request it served are kept for the step that produced them.             *)
(***************************************************************************)
EXTENDS Integers, Sequences, FiniteSets, TLC

\* ------------------------------------------------------------------ bounds

\* SpecChat: user_join, join_room and append events of a run
ChatJoins == 2
ChatMoves == 1
ChatSends == 1
\* SpecPrivate: user_join and join_room events of a run
PrivateJoins == 2
PrivateMoves == 2
\* SpecLog: appends on top of the initial log, and milliseconds the clock
\* advances
LogSends == 2
LogTicks == 1
\* SpecPage: appends on top of the initial log
PageSends == 1
\* SpecNotes: user_join events, and reactions plus read receipts
NotesJoins == 2
NotesCount == 3
\* SpecFiles: user_join, join_room and send_file events
FilesJoins == 2
FilesMoves == 1
FilesSends == 1
\* SpecRooms: user_join and join_room events
RoomsJoins == 2
RoomsMoves == 2
\* SpecMissing: user_join events, and reactions plus read receipts
MissingJoins == 1
MissingCount == 2
\* SpecRead: user_join and typing events
ReadJoins == 1
ReadTypings == 1
\* SpecTeardown: user_join and typing events
TeardownJoins == 2
TeardownTypings == 1
\* SpecStore: user_join events, send_message and send_file events,
\* add_reaction and mark_read events
StoreJoins == 1
StoreSends == 1
StoreNotes == 1
\* SpecPayload: user_join and send_message events
PayloadJoins == 1
PayloadSends == 1
\* SpecPager: user_join and join_room events, loadMoreMessages calls
PagerJoins == 1
PagerMoves == 1
PagerLoads == 3
\* SpecOptimistic: clock ticks, user_join events, sendMessage calls and
\* send_message events
OptimisticTicks == 1
OptimisticJoins == 1
OptimisticSends == 2
\* SpecTyping: user_join, join_room and typing events
TypingJoins == 3
TypingMoves == 1
TypingCount == 2

\* --------------------------------------------------------------- constants

\* server.js:33
rooms == <<"general", "random", "help">>
Rooms == {rooms[i] : i \in 1..Len(rooms)}
\* server.js:71 and :158, the cap of a room's log
MaxMessages == 100
\* server.js:207, the defaults of load_messages
DefaultLimit == 20
DefaultOffset == 0

\* a room name outside the configured list, and an absent (falsy) room field
UnknownRoom == "lobby"
NoRoom == ""

\* connections, named in the order they arrive; Socket.io gives every
\* connection a fresh id
Sessions == {"s1", "s2", "s3"}
SessionOrder == [s \in Sessions |-> CASE s = "s1" -> 1 [] s = "s2" -> 2 [] s = "s3" -> 3]
\* the client accepts only non-empty names (AdvancedChat.jsx handleConnect)
Usernames == {"alice", "bob"}
Bodies == {"hello"}
FileNames == {"a.png"}
Reactions == {"like", "heart"}

\* what the events explored carry
SendRooms == {NoRoom, "random", UnknownRoom}
JoinRooms == {"general", "random", UnknownRoom}
TypingRooms == {NoRoom, "random"}
PrivateTargets == Sessions \cup {"general"}
\* send_message payloads that supply the fields the server sets: none of
\* them, one of them, all of them, with and without a room
Forged ==
  [sender |-> "bob", senderId |-> "s2", id |-> 0, timestamp |-> 0,
   reactions |-> [r \in Reactions |-> 5], readBy |-> <<"bob">>]
ForgedSets == {{}, DOMAIN Forged} \cup {{f} : f \in DOMAIN Forged}
PayloadOf(body, roomFields, forged) ==
  [f \in {"message"} \cup roomFields \cup forged |->
     CASE f = "message" -> body [] f = "room" -> "random" [] OTHER -> Forged[f]]
Payloads ==
  {PayloadOf(b, r, k) : b \in Bodies, r \in {{}, {"room"}}, k \in ForgedSets}
\* join_room takes any string: among them the name of the room Socket.io
\* keeps for a connection, its id
OwnRooms == {"random"} \cup Sessions
LoadPayloads ==
  {[room |-> "general"], [room |-> UnknownRoom],
   [room |-> "random", limit |-> 1, offset |-> 1]}
\* the whole log: the largest window a log can fill
FullWindow == {[room |-> r, limit |-> MaxMessages, offset |-> 0] : r \in {"general", "random"}}
\* the windows asked for where the log is the subject: limit 20 and 100, by
\* offsets inside, at and beyond the log's length, and the smallest windows
PagePayloads ==
  LoadPayloads
  \cup {[room |-> "general", limit |-> l, offset |-> o] :
          l \in {20, 100}, o \in {0, 20, 40, 50, 60, 99, 100, 120, 250}}
  \cup {[room |-> "random", limit |-> l, offset |-> o] :
          l \in {1, 100}, o \in {0, 1, 2, 3}}

NoUser == [absent |-> TRUE]
NoTyping == [absent |-> TRUE]
NoAck == [absent |-> TRUE]

VARIABLES
  now,          \* Date.now(), in milliseconds
  crashed,      \* an uncaught exception in a handler ended the process
  conn,         \* per connection: "fresh", "open" or "closed"
  socketRooms,  \* per connection: the Socket.io rooms it is in
  users,        \* server.js:30
  typingUsers,  \* server.js:32
  messages,     \* server.js:31
  appendCount,  \* history: appends made to each room's log so far
  lastId,       \* history: the id given to the message created last
  left,         \* events the run may still handle, per kind
  last,         \* the event handled by the last step
  ack,          \* what the last handler passed to its callback
  emitted,      \* the events the last handler emitted, in order
  client        \* the useSocket hook on the connection Hook, where mounted

vars == <<now, crashed, conn, socketRooms, users, typingUsers, messages,
          appendCount, lastId, left, last, ack, emitted, client>>

\* ----------------------------------------------------------------- helpers

Min(a, b) == IF a < b THEN a ELSE b
Max(a, b) == IF a > b THEN a ELSE b

HasField(m, f) == f \in DOMAIN m
SetField(m, f, v) == [g \in DOMAIN m \cup {f} |-> IF g = f THEN v ELSE m[g]]

\* an event of kind k fits the run's budget, and what is left after it
Can(k) == left[k] > 0
Spend(k) == [left EXCEPT ![k] = @ - 1]

\* Array.prototype.slice(start, end) on 0-based indices, negative indices
\* counted from the end
SliceIndex(len, k) == IF k < 0 THEN Max(len + k, 0) ELSE Min(k, len)
Slice(arr, start, end) ==
  LET from == SliceIndex(Len(arr), start)
      to == SliceIndex(Len(arr), end)
  IN  IF from >= to THEN <<>> ELSE SubSeq(arr, from + 1, to)

\* as FindIndex, with a test every message passes
FindIndexAny(arr, messageId) == IF Len(arr) > 0 THEN 1 ELSE 0
\* Array.prototype.findIndex(msg => msg.id === messageId), 1-based, 0 for -1
FindIndex(arr, messageId) ==
  IF \E i \in 1..Len(arr) : arr[i].id = messageId
    THEN CHOOSE i \in 1..Len(arr) :
           /\ arr[i].id = messageId
           /\ \A j \in 1..(i - 1) : arr[j].id # messageId
    ELSE 0

\* for (const room in messages) ... break: the first room, in the order the
\* rooms were created, whose log holds the id; 0 when none does
FindRoom(msgs, messageId) ==
  IF \E k \in 1..Len(rooms) : FindIndex(msgs[rooms[k]], messageId) # 0
    THEN CHOOSE k \in 1..Len(rooms) :
           /\ FindIndex(msgs[rooms[k]], messageId) # 0
           /\ \A j \in 1..(k - 1) : FindIndex(msgs[rooms[j]], messageId) = 0
    ELSE 0

\* the message object send_message builds (server.js:57-66); seq is history,
\* the position of the message among the appends to its room
TextMessage(s, sender, room, body, id, seq) ==
  [seq |-> seq, message |-> body, id |-> id, sender |-> sender,
   senderId |-> s, timestamp |-> id, room |-> room,
   reactions |-> [r \in Reactions |-> 0], readBy |-> <<>>]

\* the message object send_file builds (server.js:143-153): it has neither
\* reactions nor readBy
FileMessage(s, sender, room, fileName, id, seq) ==
  [seq |-> seq, id |-> id, sender |-> sender, senderId |-> s,
   file |-> "data", fileName |-> fileName, fileType |-> "image/png",
   timestamp |-> id, room |-> room, isFile |-> TRUE]

\* the messages an earlier connection "s0" (user "carol") stored, one per
\* millisecond from the server's start: to "general" texts and files in turn,
\* then to "random" texts, the first of them in the millisecond of the last
\* message to "general"
OldMessage(k) ==
  IF k % 2 = 1
    THEN TextMessage("s0", "carol", "general", "hello", k, k)
    ELSE FileMessage("s0", "carol", "general", "a.png", k, k)
LaterMessage(prefill, i) ==
  TextMessage("s0", "carol", "random", "hello", Max(prefill, 1) + i - 1, i)

\* as PushCapped, without the capacity check
PushUncapped(log, m) == Append(log, m)
\* as PushCapped, with pop() for shift(): the newest message is dropped
PushCappedPop(log, m) ==
  LET pushed == Append(log, m)
  IN  IF Len(pushed) > MaxMessages THEN SubSeq(pushed, 1, Len(pushed) - 1)
      ELSE pushed

\* as PushCapped, with unshift() for push(): the new message goes in front
PushFrontCapped(log, m) ==
  LET pushed == <<m>> \o log
  IN  IF Len(pushed) > MaxMessages THEN Tail(pushed) ELSE pushed

\* push followed by the capacity check of server.js:68-73 and :156-160
PushCapped(log, m) ==
  LET pushed == Append(log, m)
  IN  IF Len(pushed) > MaxMessages THEN Tail(pushed) ELSE pushed

\* recipients of io.emit, socket.to(room).emit and socket.emit
Open == {t \in Sessions : conn[t] = "open"}
InRoom(r) == {t \in Open : r \in socketRooms[t]}
\* as ToRoom, with io.to(room) for socket.to(room): the sender is reached too
ToRoomAll(s, r) == InRoom(r)
ToRoom(s, r) == InRoom(r) \ {s}
\* as Emit, with the event handed to no connection
EmitToNobody(event, to, data) == [event |-> event, to |-> {}, data |-> data]
Emit(event, to, data) == [event |-> event, to |-> to, data |-> data]

\* Object.values(users)
UserList(us) == {us[t] : t \in {x \in Sessions : us[x] # NoUser}}

\* as SenderName, without the fallback name
SenderNameOrEmpty(s) == IF users[s] # NoUser THEN users[s].username ELSE ""
\* users[socket.id]?.username || 'Anonymous'
SenderName(s) == IF users[s] # NoUser THEN users[s].username ELSE "Anonymous"

\* Object.values(typingUsers).filter(user => user.room === room)
\*   .map(user => user.username): the usernames as a count per name; from is
\* history, the connections the entries belong to
TypingIn(tu, room) == {t \in Sessions : tu[t] # NoTyping /\ tu[t].room = room}
TypingNames(tu, room) ==
  [u \in Usernames |->
     Cardinality({t \in TypingIn(tu, room) : tu[t].username = u})]
TypingPayload(tu, room) ==
  [users |-> TypingNames(tu, room), room |-> room, from |-> TypingIn(tu, room)]

\* -------------------------------------------------------------------- Init

\* The server after start (prefill = later = 0, gone = {}), or later in its
\* life: the logs hold what an earlier connection appended, `prefill`
\* messages to "general" of which the log keeps the last MaxMessages, `later`
\* messages in "random"; the connections in `gone` have come and left; and
\* `budget` bounds the events of the run.
InitServer(prefill, later, gone, budget) ==
  /\ now = (IF later > 0 THEN Max(prefill, 1) + later - 1 ELSE prefill) + 1
  /\ crashed = FALSE
  /\ conn = [s \in Sessions |-> IF s \in gone THEN "closed" ELSE "fresh"]
  /\ socketRooms = [s \in Sessions |-> {}]
  /\ users = [s \in Sessions |-> NoUser]
  /\ typingUsers = [s \in Sessions |-> NoTyping]
  /\ messages =
       [r \in Rooms |->
          CASE r = "general" ->
                 [i \in 1..Min(prefill, MaxMessages) |->
                    OldMessage(prefill - Min(prefill, MaxMessages) + i)]
            [] r = "random" -> [i \in 1..later |-> LaterMessage(prefill, i)]
            [] OTHER -> <<>>]
  /\ appendCount =
       [r \in Rooms |->
          CASE r = "general" -> prefill [] r = "random" -> later [] OTHER -> 0]
  /\ lastId = IF later > 0 THEN Max(prefill, 1) + later - 1 ELSE prefill
  /\ left = budget
  /\ last = [op |-> "idle"]
  /\ ack = NoAck
  /\ emitted = <<>>

\* the server alone: no client hook is mounted
Unmounted == [mounted |-> FALSE]
InitWith(prefill, later, gone, budget) ==
  InitServer(prefill, later, gone, budget) /\ client = Unmounted

\* ----------------------------------------------------------------- actions

\* the server is between two events: the process runs and what the last
\* handler emitted has been handed to the transport
Ready == ~crashed /\ last.op = "idle"

\* the handler returned: its emissions and its acknowledgment leave the server
Settle ==
  /\ last.op # "idle"
  /\ last' = [op |-> "idle"]
  /\ ack' = NoAck
  /\ emitted' = <<>>
  /\ UNCHANGED <<now, crashed, conn, socketRooms, users, typingUsers,
                 messages, appendCount, lastId, left, client>>

\* the handler threw: nothing catches it, the process ends
Crash(op) ==
  /\ crashed' = TRUE
  /\ last' = op
  /\ ack' = NoAck
  /\ emitted' = <<>>
  /\ UNCHANGED <<now, conn, socketRooms, users, typingUsers, messages,
                 appendCount, lastId, left>>

\* time passes between two events
Tick ==
  /\ Ready
  /\ Can("tick")
  /\ now' = now + 1
  /\ left' = Spend("tick")
  /\ last' = [op |-> "tick"]
  /\ ack' = NoAck
  /\ emitted' = <<>>
  /\ UNCHANGED <<crashed, conn, socketRooms, users, typingUsers, messages,
                 appendCount, lastId, client>>

\* io.on('connection'): the connection is in the room named by its own id
Connect(s) ==
  /\ Ready
  /\ conn[s] = "fresh"
  /\ \A t \in Sessions : SessionOrder[t] < SessionOrder[s] => conn[t] # "fresh"
  /\ conn' = [conn EXCEPT ![s] = "open"]
  /\ socketRooms' = [socketRooms EXCEPT ![s] = {s}]
  /\ last' = [op |-> "connection", sid |-> s]
  /\ ack' = NoAck
  /\ emitted' = <<>>
  /\ UNCHANGED <<now, crashed, users, typingUsers, messages, appendCount,
                 lastId, left>>

UserJoin(s, username) ==
  /\ Ready
  /\ conn[s] = "open"
  /\ Can("join")
  /\ users' = [users EXCEPT
       ![s] = [username |-> username, id |-> s, currentRoom |-> "general"]]
  /\ socketRooms' = [socketRooms EXCEPT ![s] = @ \cup {"general"}]
  /\ emitted' = << Emit("user_list", Open, UserList(users')),
                   Emit("user_joined", Open, [username |-> username, id |-> s]) >>
  /\ left' = Spend("join")
  /\ last' = [op |-> "user_join", sid |-> s, username |-> username]
  /\ ack' = NoAck
  /\ UNCHANGED <<now, crashed, conn, typingUsers, messages, appendCount,
                 lastId>>

\* the fields send_message sets itself (server.js:59-65)
ServerFields(s, sender, room, id, seq) ==
  [seq |-> seq, id |-> id, sender |-> sender, senderId |-> s,
   timestamp |-> id, room |-> room,
   reactions |-> [r \in Reactions |-> 0], readBy |-> <<>>]
\* as Spread, with the payload spread after the server's fields
SpreadLast(payload, fields) ==
  [f \in DOMAIN payload \cup DOMAIN fields |->
     IF f \in DOMAIN payload THEN payload[f] ELSE fields[f]]
\* { ...messageData, id: ..., sender: ..., ... } (server.js:57-66): the
\* payload's fields, each overwritten by the field of the same name after it
Spread(payload, fields) ==
  [f \in DOMAIN payload \cup DOMAIN fields |->
     IF f \in DOMAIN fields THEN fields[f] ELSE payload[f]]

\* as SendSteps, with the broadcast moved in front of the acknowledgment
SendStepsEmitFirst(evicts, hasCallback) ==
  <<"push">> \o (IF evicts THEN <<"shift">> ELSE <<>>) \o <<"emit">>
  \o (IF hasCallback THEN <<"callback">> ELSE <<>>)
\* the statements of send_message after the message is built, in the order
\* they run (server.js:68-81): push, shift if the log is over the cap,
\* callback if there is one, emit
SendSteps(evicts, hasCallback) ==
  <<"push">> \o (IF evicts THEN <<"shift">> ELSE <<>>)
  \o (IF hasCallback THEN <<"callback">> ELSE <<>>) \o <<"emit">>

SendMessage(s, roomField, body, hasCallback) ==
  LET room == IF roomField = NoRoom THEN "general" ELSE roomField
      messageId == now
      op == [op |-> "send_message", sid |-> s, room |-> room, body |-> body,
             hasCallback |-> hasCallback, user |-> users[s],
             prevId |-> lastId, id |-> messageId]
  IN
  /\ Ready
  /\ conn[s] = "open"
  /\ Can("send")
  /\ IF room \notin Rooms
       THEN Crash(op)
       ELSE
         LET message == TextMessage(s, SenderName(s), room, body, messageId,
                                    appendCount[room] + 1)
         IN
         /\ messages' = [messages EXCEPT ![room] = PushCapped(@, message)]
         /\ appendCount' = [appendCount EXCEPT ![room] = @ + 1]
         /\ lastId' = messageId
         /\ ack' = IF hasCallback
                     THEN [success |-> TRUE, messageId |-> messageId]
                     ELSE NoAck
         /\ emitted' = << Emit("receive_message", ToRoom(s, room), message) >>
         /\ left' = Spend("send")
         /\ last' = SetField(op, "steps",
                             SendSteps(Len(messages[room]) + 1 > MaxMessages,
                                       hasCallback))
         /\ UNCHANGED <<now, crashed, conn, socketRooms, users, typingUsers>>

Typing(s, roomField, isTyping) ==
  LET room == IF roomField = NoRoom THEN "general" ELSE roomField
      op == [op |-> "typing", sid |-> s, room |-> room, isTyping |-> isTyping,
             user |-> users[s]]
  IN
  /\ Ready
  /\ conn[s] = "open"
  /\ Can("typing")
  /\ IF users[s] # NoUser
       THEN
         /\ typingUsers' = [typingUsers EXCEPT
              ![s] = IF isTyping
                       THEN [username |-> users[s].username, room |-> room]
                       ELSE NoTyping]
         /\ emitted' = << Emit("typing_users", ToRoom(s, room),
                               TypingPayload(typingUsers', room)) >>
       ELSE
         /\ emitted' = <<>>
         /\ UNCHANGED typingUsers
  /\ left' = Spend("typing")
  /\ last' = op
  /\ ack' = NoAck
  /\ UNCHANGED <<now, crashed, conn, socketRooms, users, messages,
                 appendCount, lastId>>

\* send_message with a payload of any fields: SendMessage is the case of a
\* payload that holds message and room alone
SendPayload(s, payload, hasCallback) ==
  LET room == IF HasField(payload, "room") /\ payload.room # NoRoom
                THEN payload.room ELSE "general"
      messageId == now
      op == [op |-> "send_message", sid |-> s, room |-> room,
             body |-> payload.message, hasCallback |-> hasCallback,
             user |-> users[s], prevId |-> lastId, id |-> messageId,
             payload |-> payload]
  IN
  /\ Ready
  /\ conn[s] = "open"
  /\ Can("send")
  /\ IF room \notin Rooms
       THEN Crash(op)
       ELSE
         LET message == Spread(payload,
                               ServerFields(s, SenderName(s), room, messageId,
                                            appendCount[room] + 1))
         IN
         /\ messages' = [messages EXCEPT ![room] = PushCapped(@, message)]
         /\ appendCount' = [appendCount EXCEPT ![room] = @ + 1]
         /\ lastId' = messageId
         /\ ack' = IF hasCallback
                     THEN [success |-> TRUE, messageId |-> messageId]
                     ELSE NoAck
         /\ emitted' = << Emit("receive_message", ToRoom(s, room), message) >>
         /\ left' = Spend("send")
         /\ last' = SetField(op, "steps",
                             SendSteps(Len(messages[room]) + 1 > MaxMessages,
                                       hasCallback))
         /\ UNCHANGED <<now, crashed, conn, socketRooms, users, typingUsers>>

\* the message object private_message builds (server.js:107-115)
PrivateData(s, sender, to, body, id) ==
  [id |-> id, sender |-> sender, senderId |-> s, message |-> body,
   timestamp |-> id, isPrivate |-> TRUE, to |-> to]

PrivateMessage(s, to, body, hasCallback) ==
  LET finalMessageId == now
      messageData == PrivateData(s, SenderName(s), to, body, finalMessageId)
  IN
  /\ Ready
  /\ conn[s] = "open"
  /\ lastId' = finalMessageId
  /\ ack' = IF hasCallback
              THEN [success |-> TRUE, messageId |-> finalMessageId]
              ELSE NoAck
  /\ emitted' = << Emit("private_message", ToRoom(s, to), messageData) >>
  /\ last' = [op |-> "private_message", sid |-> s, to |-> to, body |-> body,
              hasCallback |-> hasCallback, user |-> users[s],
              prevId |-> lastId, id |-> finalMessageId]
  /\ UNCHANGED <<now, crashed, conn, socketRooms, users, typingUsers,
                 messages, appendCount, left>>

\* as RoomMessages, reading the log of "general" for every room
RoomMessagesGeneral(room) == messages["general"]
\* messages[room] || []
RoomMessages(room) == IF room \in Rooms THEN messages[room] ELSE <<>>

JoinRoom(s, roomName) ==
  /\ Ready
  /\ conn[s] = "open"
  /\ Can("move")
  /\ IF users[s] # NoUser
       THEN
         LET previousRoom == users[s].currentRoom
         IN
         /\ socketRooms' = [socketRooms EXCEPT
              ![s] = (@ \ {previousRoom}) \cup {roomName}]
         /\ users' = [users EXCEPT ![s].currentRoom = roomName]
         /\ emitted' = << Emit("room_messages", {s}, RoomMessages(roomName)) >>
       ELSE
         /\ emitted' = <<>>
         /\ UNCHANGED <<socketRooms, users>>
  /\ left' = Spend("move")
  /\ last' = [op |-> "join_room", sid |-> s, room |-> roomName,
              user |-> users[s]]
  /\ ack' = NoAck
  /\ UNCHANGED <<now, crashed, conn, typingUsers, messages, appendCount,
                 lastId>>

SendFile(s, roomField, fileName) ==
  LET room == IF roomField = NoRoom THEN "general" ELSE roomField
      op == [op |-> "send_file", sid |-> s, room |-> room,
             fileName |-> fileName, user |-> users[s],
             prevId |-> lastId, id |-> now]
  IN
  /\ Ready
  /\ conn[s] = "open"
  /\ Can("send")
  /\ IF room \notin Rooms
       THEN Crash(op)
       ELSE
         LET messageData == FileMessage(s, SenderName(s), room, fileName, now,
                                        appendCount[room] + 1)
         IN
         /\ messages' = [messages EXCEPT ![room] = PushCapped(@, messageData)]
         /\ appendCount' = [appendCount EXCEPT ![room] = @ + 1]
         /\ lastId' = now
         /\ ack' = NoAck
         /\ emitted' = << Emit("receive_file", ToRoom(s, room), messageData),
                          Emit("receive_file", {s}, messageData) >>
         /\ left' = Spend("send")
         /\ last' = op
         /\ UNCHANGED <<now, crashed, conn, socketRooms, users, typingUsers>>

\* the ids the reactions and read receipts explored name: the oldest and the
\* newest message of every log, the id created last (which may be a private
\* message's or an evicted one's) and 0, an id never assigned
TargetIds ==
  {0, lastId}
  \cup UNION {{messages[r][1].id, messages[r][Len(messages[r])].id} :
               r \in {x \in Rooms : messages[x] # <<>>}}

\* as React, with the count set to 1 whatever it was
ReactOverwrite(message, reaction) ==
  LET reactions == IF HasField(message, "reactions") THEN message.reactions
                   ELSE [r \in Reactions |-> 0]
  IN  SetField(message, "reactions", [reactions EXCEPT ![reaction] = 1])

\* message.reactions[reaction]++ with the two defaults of server.js:176-177
React(message, reaction) ==
  LET reactions == IF HasField(message, "reactions") THEN message.reactions
                   ELSE [r \in Reactions |-> 0]
  IN  SetField(message, "reactions", [reactions EXCEPT ![reaction] = @ + 1])

AddReaction(s, messageId, reaction) ==
  LET user == users[s]
      k == FindRoom(messages, messageId)
      op == [op |-> "add_reaction", sid |-> s, messageId |-> messageId,
             reaction |-> reaction, user |-> user, found |-> k]
  IN
  /\ Ready
  /\ conn[s] = "open"
  /\ Can("note")
  /\ IF user # NoUser /\ k # 0
       THEN
         LET room == rooms[k]
             messageIndex == FindIndex(messages[room], messageId)
             message == React(messages[room][messageIndex], reaction)
         IN
         /\ messages' = [messages EXCEPT ![room][messageIndex] = message]
         /\ emitted' = << Emit("reaction_added", Open,
                               [messageId |-> messageId, reaction |-> reaction,
                                count |-> message.reactions[reaction]]) >>
       ELSE
         /\ emitted' = <<>>
         /\ UNCHANGED messages
  /\ left' = Spend("note")
  /\ last' = op
  /\ ack' = NoAck
  /\ UNCHANGED <<now, crashed, conn, socketRooms, users, typingUsers,
                 appendCount, lastId>>

\* Array.prototype.includes
Includes(arr, x) == \E i \in 1..Len(arr) : arr[i] = x

MarkRead(s, messageId) ==
  LET user == users[s]
      k == FindRoom(messages, messageId)
      op == [op |-> "mark_read", sid |-> s, messageId |-> messageId,
             user |-> user, found |-> k]
  IN
  /\ Ready
  /\ conn[s] = "open"
  /\ Can("note")
  /\ IF user # NoUser /\ k # 0
       THEN
         LET room == rooms[k]
             messageIndex == FindIndex(messages[room], messageId)
             message == messages[room][messageIndex]
             readBy == IF HasField(message, "readBy") THEN message.readBy
                       ELSE <<>>
         IN
         IF ~Includes(readBy, user.username)
           THEN
             /\ messages' = [messages EXCEPT ![room][messageIndex] =
                  SetField(message, "readBy", Append(readBy, user.username))]
             /\ emitted' = << Emit("message_read", Open,
                                   [messageId |-> messageId,
                                    userId |-> user.username]) >>
           ELSE
             /\ emitted' = <<>>
             /\ UNCHANGED messages
       ELSE
         /\ emitted' = <<>>
         /\ UNCHANGED messages
  /\ left' = Spend("note")
  /\ last' = op
  /\ ack' = NoAck
  /\ UNCHANGED <<now, crashed, conn, socketRooms, users, typingUsers,
                 appendCount, lastId>>

\* the window load_messages computes (server.js:208-211)
\* as StartIndex, with the offset left out of the window's start
StartIndexNoOffset(len, limit, offset) == Max(0, len - limit)
StartIndex(len, limit, offset) == Max(0, len - limit - offset)
\* as EndIndex, with the offset left out of the window's end
EndIndexFull(len, offset) == len
EndIndex(len, offset) == len - offset

LoadMessages(s, payload, hasCallback) ==
  LET room == payload.room
      limit == IF HasField(payload, "limit") THEN payload.limit
               ELSE DefaultLimit
      offset == IF HasField(payload, "offset") THEN payload.offset
                ELSE DefaultOffset
      roomMessages == RoomMessages(room)
      startIndex == StartIndex(Len(roomMessages), limit, offset)
      endIndex == EndIndex(Len(roomMessages), offset)
      requestedMessages == Slice(roomMessages, startIndex, endIndex)
      op == [op |-> "load_messages", sid |-> s, room |-> room,
             limit |-> limit, offset |-> offset, hasCallback |-> hasCallback]
  IN
  /\ Ready
  /\ conn[s] = "open"
  /\ IF ~hasCallback
       THEN Crash(op)
       ELSE
         /\ ack' = [success |-> TRUE, messages |-> requestedMessages,
                    hasMore |-> startIndex > 0]
         /\ emitted' = <<>>
         /\ last' = op
         /\ UNCHANGED <<now, crashed, conn, socketRooms, users, typingUsers,
                        messages, appendCount, lastId, left>>

\* delete store[socket.id] (server.js:228-229)
\* as Delete, with the entry left in the store
DeleteNothing(store, s, none) == store
Delete(store, s, none) == [store EXCEPT ![s] = none]

\* by the time the handler runs Socket.io has taken the connection out of
\* every room, so io.emit no longer reaches it
Disconnect(s) ==
  /\ Ready
  /\ conn[s] = "open"
  /\ conn' = [conn EXCEPT ![s] = "closed"]
  /\ socketRooms' = [socketRooms EXCEPT ![s] = {}]
  /\ users' = Delete(users, s, NoUser)
  /\ typingUsers' = Delete(typingUsers, s, NoTyping)
  /\ emitted' =
       (IF users[s] # NoUser
          THEN << Emit("user_left", Open \ {s},
                       [username |-> users[s].username, id |-> s]) >>
          ELSE <<>>)
       \o << Emit("user_list", Open \ {s}, UserList(users')),
             Emit("typing_users", Open \ {s},
                  TypingPayload(typingUsers', "general")) >>
  /\ last' = [op |-> "disconnect", sid |-> s, user |-> users[s],
              typing |-> typingUsers[s], first |-> TRUE]
  /\ ack' = NoAck
  /\ UNCHANGED <<now, crashed, messages, appendCount, lastId, left>>

\* the disconnect handler run once more for a connection already torn down:
\* the same body, on stores that no longer hold the connection
DisconnectAgain(s) ==
  /\ Ready
  /\ conn[s] = "closed"
  /\ users' = Delete(users, s, NoUser)
  /\ typingUsers' = Delete(typingUsers, s, NoTyping)
  /\ emitted' =
       (IF users[s] # NoUser
          THEN << Emit("user_left", Open \ {s},
                       [username |-> users[s].username, id |-> s]) >>
          ELSE <<>>)
       \o << Emit("user_list", Open \ {s}, UserList(users')),
             Emit("typing_users", Open \ {s},
                  TypingPayload(typingUsers', "general")) >>
  /\ last' = [op |-> "disconnect", sid |-> s, user |-> users[s],
              typing |-> typingUsers[s], first |-> FALSE]
  /\ ack' = NoAck
  /\ UNCHANGED <<conn, socketRooms, now, crashed, messages, appendCount,
                 lastId, left>>

\* the handlers, over the events explored; the server runs them, the hook's
\* state is the client's
Connects ==
  /\ \E s \in Sessions : Connect(s)
  /\ UNCHANGED client
UserJoins ==
  /\ \E s \in Sessions, u \in Usernames : UserJoin(s, u)
  /\ UNCHANGED client
SendMessages ==
  /\ \E s \in Sessions, r \in SendRooms, b \in Bodies, cb \in BOOLEAN :
     SendMessage(s, r, b, cb)
  /\ UNCHANGED client
Typings ==
  /\ \E s \in Sessions, r \in TypingRooms, t \in BOOLEAN : Typing(s, r, t)
  /\ UNCHANGED client
PrivateMessages ==
  /\ \E s \in Sessions, to \in PrivateTargets, b \in Bodies, cb \in BOOLEAN :
     PrivateMessage(s, to, b, cb)
  /\ UNCHANGED client
SendPayloads ==
  /\ \E s \in Sessions, p \in Payloads, cb \in BOOLEAN : SendPayload(s, p, cb)
  /\ UNCHANGED client
JoinsOf(names) ==
  /\ \E s \in Sessions, r \in names : JoinRoom(s, r)
  /\ UNCHANGED client
JoinRooms_ == JoinsOf(JoinRooms)
SendFiles ==
  /\ \E s \in Sessions, r \in SendRooms, f \in FileNames : SendFile(s, r, f)
  /\ UNCHANGED client
AddReactions ==
  /\ \E s \in Sessions, id \in TargetIds, r \in Reactions : AddReaction(s, id, r)
  /\ UNCHANGED client
MarkReads ==
  /\ \E s \in Sessions, id \in TargetIds : MarkRead(s, id)
  /\ UNCHANGED client
LoadsOf(payloads) ==
  /\ \E s \in Sessions, p \in payloads, cb \in BOOLEAN : LoadMessages(s, p, cb)
  /\ UNCHANGED client
\* ids no log holds: 0, never assigned; 1, the id of the first message ever
\* stored, once its log has evicted it; the id created last, when it is a
\* private message's
MissingIds == {0, 1, lastId}
AddReactionsOf(ids) ==
  /\ \E s \in Sessions, id \in ids, r \in Reactions : AddReaction(s, id, r)
  /\ UNCHANGED client
MarkReadsOf(ids) ==
  /\ \E s \in Sessions, id \in ids : MarkRead(s, id)
  /\ UNCHANGED client
Disconnects ==
  /\ \E s \in Sessions : Disconnect(s)
  /\ UNCHANGED client
DisconnectAgains ==
  /\ \E s \in Sessions : DisconnectAgain(s)
  /\ UNCHANGED client

\* ---------------------------------------------------------- the client hook

\* useSocket (src/client/src/socket/socket.js) mounted on the connection Hook.
\* outbox: what the hook has emitted and the server has not handled yet;
\* inbox: acknowledgments and events on their way to the hook, in order;
\* sent, loads: history, the calls of sendMessage and loadMoreMessages so far
Hook == "s1"
PageLimit == 20
Mounted ==
  [mounted |-> TRUE, messages |-> <<>>, hasMoreMessages |-> TRUE,
   loadingMore |-> FALSE, currentRoom |-> "general", outbox |-> <<>>,
   inbox |-> <<>>, sent |-> 0, loads |-> 0]

ServerVars ==
  <<now, crashed, conn, socketRooms, users, typingUsers, messages,
    appendCount, lastId, left, last, ack, emitted>>

\* the events a handler emitted that reach the hook and whose listener
\* changes the hook's messages
Listened ==
  {"receive_message", "user_joined", "user_left", "room_messages"}
ForHook(em) ==
  LET mine == SelectSeq(em, LAMBDA e : Hook \in e.to /\ e.event \in Listened)
  IN  [i \in 1..Len(mine) |->
         [kind |-> "event", event |-> mine[i].event, data |-> mine[i].data]]

\* sendMessage up to its emit (socket.js:45-61): the optimistic copy, then
\* the request
HookSendMessage(body, calls) ==
  LET messageId == now
      tempMessage ==
        [id |-> messageId, message |-> body, sender |-> "You",
         senderId |-> Hook, timestamp |-> now, room |-> client.currentRoom,
         status |-> "pending", n |-> client.sent + 1]
  IN
  /\ client.mounted /\ conn[Hook] = "open" /\ ~crashed
  /\ client.sent < calls
  /\ client' = [client EXCEPT
       !.messages = Append(@, tempMessage),
       !.sent = @ + 1,
       !.outbox = Append(@, [event |-> "send_message", n |-> client.sent + 1,
                             payload |-> [message |-> body,
                                          room |-> client.currentRoom,
                                          messageId |-> messageId]])]
  /\ UNCHANGED ServerVars

\* joinRoom (socket.js:127-131), one room change on its way at a time
HookJoinRoom(roomName) ==
  /\ client.mounted /\ conn[Hook] = "open" /\ ~crashed
  /\ Can("move") /\ client.outbox = <<>>
  /\ client' = [client EXCEPT
       !.currentRoom = roomName,
       !.hasMoreMessages = TRUE,
       !.outbox = Append(@, [event |-> "join_room", payload |-> roomName])]
  /\ UNCHANGED ServerVars

\* loadMoreMessages up to its emit (socket.js:134-138)
HookLoadMoreMessages(calls) ==
  /\ client.mounted /\ conn[Hook] = "open" /\ ~crashed
  /\ client.loads < calls
  /\ ~(client.loadingMore \/ ~client.hasMoreMessages)
  /\ client' = [client EXCEPT
       !.loadingMore = TRUE,
       !.loads = @ + 1,
       !.outbox = Append(@, [event |-> "load_messages",
                             payload |-> [room |-> client.currentRoom,
                                          limit |-> PageLimit]])]
  /\ UNCHANGED ServerVars

\* the server handles the hook's oldest request; the acknowledgment, then
\* the events emitted to the hook's connection, set off to the hook
Serve ==
  /\ client.mounted /\ client.outbox # <<>>
  /\ LET request == Head(client.outbox)
     IN  /\ CASE request.event = "send_message" ->
                   SendPayload(Hook, request.payload, TRUE)
              [] request.event = "join_room" ->
                   JoinRoom(Hook, request.payload)
              [] request.event = "load_messages" ->
                   LoadMessages(Hook, request.payload, TRUE)
         /\ client' = [client EXCEPT
              !.outbox = Tail(@),
              !.inbox = @ \o (IF ack' # NoAck
                                THEN << [kind |-> "ack", of |-> request,
                                         response |-> ack'] >>
                                ELSE <<>>)
                         \o ForHook(emitted')]

\* a handler run for an event of any connection's own making; what it emits
\* to the hook's connection sets off to the hook
Heard(handler) ==
  /\ handler
  /\ client' = [client EXCEPT !.inbox = @ \o ForHook(emitted')]
HeardUserJoins == \E s \in Sessions, u \in Usernames : Heard(UserJoin(s, u))
HeardSendMessages ==
  \E s \in Sessions \ {Hook}, r \in {NoRoom}, b \in Bodies :
    Heard(SendMessage(s, r, b, FALSE))
HeardDisconnects == \E s \in Sessions : Heard(Disconnect(s))

\* the callback of sendMessage (socket.js:61-79)
Reconcile(msgs, request, response) ==
  [i \in DOMAIN msgs |->
     IF msgs[i].id = request.payload.messageId
       THEN IF response.success
              THEN SetField(SetField(msgs[i], "status", "delivered"),
                            "id", response.messageId)
              ELSE SetField(msgs[i], "status", "failed")
       ELSE msgs[i]]

\* the callback of loadMoreMessages (socket.js:138-144)
Prepended(msgs, response) == response.messages \o msgs
HasMoreAfter(response) == Len(response.messages) = PageLimit

\* an acknowledgment reaches the hook: the callback of the request runs
HookAck ==
  /\ client.mounted /\ client.inbox # <<>>
  /\ Head(client.inbox).kind = "ack"
  /\ LET request == Head(client.inbox).of
         response == Head(client.inbox).response
     IN  CASE request.event = "send_message" ->
                client' = [client EXCEPT
                  !.inbox = Tail(@),
                  !.messages = Reconcile(@, request, response)]
           [] request.event = "load_messages" ->
                client' = [client EXCEPT
                  !.inbox = Tail(@),
                  !.messages = IF response.success
                                 THEN Prepended(@, response) ELSE @,
                  !.hasMoreMessages = IF response.success
                                        THEN HasMoreAfter(response) ELSE @,
                  !.loadingMore = FALSE]
  /\ UNCHANGED ServerVars

\* an event reaches the hook: its listener runs (socket.js:188-191, :207-231,
\* :289-291)
SystemMessage(user, what) ==
  [id |-> now, system |-> TRUE, message |-> <<user.username, what>>,
   timestamp |-> now]
HookEvent ==
  /\ client.mounted /\ client.inbox # <<>>
  /\ Head(client.inbox).kind = "event"
  /\ LET event == Head(client.inbox).event
         data == Head(client.inbox).data
     IN  client' = [client EXCEPT
           !.inbox = Tail(@),
           !.messages =
              CASE event = "receive_message" -> Append(@, data)
                [] event = "user_joined" ->
                     Append(@, SystemMessage(data, "joined the chat"))
                [] event = "user_left" ->
                     Append(@, SystemMessage(data, "left the chat"))
                [] event = "room_messages" -> data]
  /\ UNCHANGED ServerVars

\* the calls of the hook, over the arguments explored
HookSends(calls) == \E b \in Bodies : HookSendMessage(b, calls)
HookJoins == \E r \in {"random"} : HookJoinRoom(r)

\* ---------------------------------------------------------- specifications

Budget(tick, join, move, typing, send, note) ==
  [tick |-> tick, join |-> join, move |-> move, typing |-> typing,
   send |-> send, note |-> note]

\* The whole server from its start.
Init == InitWith(0, 0, {}, Budget(LogTicks, ChatJoins, ChatMoves, TypingCount,
                                  ChatSends, NotesCount))
Next ==
  \/ Settle \/ Tick \/ Connects \/ UserJoins \/ SendMessages \/ Typings
  \/ PrivateMessages \/ JoinRooms_ \/ SendFiles \/ AddReactions \/ MarkReads
  \/ LoadsOf(LoadPayloads) \/ Disconnects
Spec == Init /\ [][Next]_vars

\* Room messages: three connections join, change rooms and send.
NextChat ==
  \/ Settle \/ Connects \/ UserJoins \/ JoinRooms_ \/ SendMessages
  \/ Disconnects
InitChat == InitWith(0, 0, {}, Budget(0, ChatJoins, ChatMoves, 0, ChatSends, 0))
SpecChat == InitChat /\ [][NextChat]_vars

\* Private messages: three connections join, change rooms and write to one
\* another.
NextPrivate ==
  \/ Settle \/ Connects \/ UserJoins \/ JoinsOf(OwnRooms) \/ PrivateMessages
  \/ Disconnects
InitPrivate ==
  InitWith(1, 0, {}, Budget(0, PrivateJoins, PrivateMoves, 0, 0, 0))
SpecPrivate == InitPrivate /\ [][NextPrivate]_vars

\* The room log at its cap: two connections append to a log that starts one
\* short of the cap and to the empty logs, and read them back.
NextLog ==
  \/ Settle \/ Tick \/ Connects \/ SendMessages \/ SendFiles
  \/ PrivateMessages \/ LoadsOf(LoadPayloads \cup FullWindow) \/ Disconnects
InitLog ==
  InitWith(MaxMessages - 1, 0, {"s3"}, Budget(LogTicks, 0, 0, 0, LogSends, 0))
SpecLog == InitLog /\ [][NextLog]_vars

\* Pagination: a connection pages through logs of several lengths.
NextPage ==
  \/ Settle \/ Connects \/ SendMessages \/ SendFiles \/ LoadsOf(PagePayloads)
  \/ Disconnects
InitPage ==
  \E prefill \in {0, 50, MaxMessages, 2 * MaxMessages + 50}, later \in {0, 2} :
    InitWith(prefill, later, {"s2", "s3"}, Budget(0, 0, 0, 0, PageSends, 0))
SpecPage == InitPage /\ [][NextPage]_vars

\* Reactions and read receipts: two connections join and annotate the
\* messages the logs start with, two of which share an id.
NextNotes ==
  \/ Settle \/ Connects \/ UserJoins \/ AddReactions \/ MarkReads \/ Disconnects
InitNotes == InitWith(2, 2, {"s3"}, Budget(0, NotesJoins, 0, 0, 0, NotesCount))
SpecNotes == InitNotes /\ [][NextNotes]_vars

\* The stored messages: a connection appends texts and files to a log at the
\* cap and to a short one, reacts to messages and marks them read.
NextStore ==
  \/ Settle \/ Connects \/ UserJoins \/ SendMessages \/ SendFiles
  \/ AddReactions \/ MarkReads \/ Disconnects
InitStore ==
  InitWith(MaxMessages, 2, {"s2", "s3"},
           Budget(0, StoreJoins, 0, 0, StoreSends, StoreNotes))
SpecStore == InitStore /\ [][NextStore]_vars

\* Payloads: two connections, registered or not, send text messages whose
\* payloads supply fields of their own.
NextPayload ==
  \/ Settle \/ Connects \/ UserJoins \/ SendPayloads \/ Disconnects
InitPayload ==
  InitWith(0, 0, {"s3"}, Budget(0, PayloadJoins, 0, 0, PayloadSends, 0))
SpecPayload == InitPayload /\ [][NextPayload]_vars

\* Pagination in the hook: beside a log of two full pages and a part and a
\* log of one full page, the hook's connection joins, changes rooms and
\* loads more messages.
NextPager ==
  \/ Settle \/ Connects \/ HeardUserJoins \/ HookJoins
  \/ HookLoadMoreMessages(PagerLoads) \/ Serve \/ HookAck \/ HookEvent
  \/ HeardDisconnects
InitPager ==
  /\ InitServer(2 * PageLimit + 5, PageLimit, {"s3"},
                Budget(0, PagerJoins, PagerMoves, 0, 0, 0))
  /\ client = Mounted
SpecPager == InitPager /\ [][NextPager]_vars

\* Optimistic messages in the hook: the hook's connection joins and sends
\* while time passes or not, beside a connection that sends to its room.
NextOptimistic ==
  \/ Settle \/ Tick \/ Connects \/ HeardUserJoins \/ HeardSendMessages
  \/ HookSends(OptimisticSends) \/ Serve \/ HookAck \/ HookEvent
  \/ HeardDisconnects
InitOptimistic ==
  /\ InitServer(0, 0, {"s3"},
                Budget(OptimisticTicks, OptimisticJoins, 0, 0,
                       OptimisticSends, 0))
  /\ client = Mounted
SpecOptimistic == InitOptimistic /\ [][NextOptimistic]_vars

\* Typing presence: three connections join, change rooms, type and leave.
NextTyping ==
  \/ Settle \/ Connects \/ UserJoins \/ JoinRooms_ \/ Typings \/ Disconnects
InitTyping ==
  InitWith(0, 0, {}, Budget(0, TypingJoins, TypingMoves, TypingCount, 0, 0))
SpecTyping == InitTyping /\ [][NextTyping]_vars

\* Teardown: connections join, type and leave beside logs that hold
\* messages, and the disconnect handler runs again for the ones that left.
NextTeardown ==
  \/ Settle \/ Connects \/ UserJoins \/ Typings \/ Disconnects
  \/ DisconnectAgains
InitTeardown ==
  InitWith(2, 1, {}, Budget(0, TeardownJoins, 0, TeardownTypings, 0, 0))
SpecTeardown == InitTeardown /\ [][NextTeardown]_vars

\* File messages: three connections join, change rooms and send files.
NextFiles ==
  \/ Settle \/ Connects \/ UserJoins \/ JoinRooms_ \/ SendFiles \/ Disconnects
InitFiles ==
  InitWith(0, 0, {}, Budget(0, FilesJoins, FilesMoves, 0, FilesSends, 0))
SpecFiles == InitFiles /\ [][NextFiles]_vars

\* Changing rooms: two connections join and move between rooms whose logs
\* an earlier connection filled, that of "general" past its cap.
NextRooms == Settle \/ Connects \/ UserJoins \/ JoinRooms_ \/ Disconnects
InitRooms ==
  InitWith(MaxMessages + 1, 2, {"s3"}, Budget(0, RoomsJoins, RoomsMoves, 0, 0, 0))
SpecRooms == InitRooms /\ [][NextRooms]_vars

\* Ids that are not there: two connections exchange private messages and
\* annotate, by ids stored and not stored, logs of which "general" has
\* evicted its first message.
NextMissing ==
  \/ Settle \/ Connects \/ UserJoins \/ PrivateMessages
  \/ AddReactionsOf(MissingIds \cup TargetIds)
  \/ MarkReadsOf(MissingIds \cup TargetIds) \/ Disconnects
InitMissing ==
  InitWith(MaxMessages + 1, 0, {"s3"},
           Budget(0, MissingJoins, 0, 0, 0, MissingCount))
SpecMissing == InitMissing /\ [][NextMissing]_vars

\* Reading history: two connections, registered or not, typing or not, page
\* through the logs an earlier connection filled.
NextRead ==
  \/ Settle \/ Connects \/ UserJoins \/ Typings \/ LoadsOf(PagePayloads)
  \/ Disconnects
InitRead ==
  InitWith(50, 2, {"s3"}, Budget(0, ReadJoins, 0, ReadTypings, 0, 0))
SpecRead == InitRead /\ [][NextRead]_vars

\* ------------------------------------------------------------------ claims

\* the last step ran the named handler to its end
Handled(op) == last.op = op /\ ~crashed
Appended == Handled("send_message") \/ Handled("send_file")
Created == Appended \/ Handled("private_message")

\* C1: in every reachable state, whatever send_message and send_file events
\* any connections have sent, no room's log holds more than 100 messages.
C1_LogWithinCap == \A r \in Rooms : Len(messages[r]) <= MaxMessages

\* an append has just found the log full and evicted
C1_Witness ==
  /\ Appended
  /\ appendCount[last.room] > MaxMessages
  /\ Len(messages[last.room]) = MaxMessages

\* the positions, among all appends to room r, of the messages its log holds
LogSeqs(r) == [i \in 1..Len(messages[r]) |-> messages[r][i].seq]
\* the last n of the positions 1..total, in order
LastSeqs(total, n) == [i \in 1..n |-> total - n + i]

\* C2: after N appends to a room, its log is the last min(N, 100) appended
\* messages in append order, so for N > 100 the oldest N-100 are in no log;
\* load_messages with limit 100 and offset 0 answers with exactly that log,
\* and no load_messages answer holds a message older than it.
C2_RecentWindow ==
  /\ \A r \in Rooms :
       LogSeqs(r) = LastSeqs(appendCount[r], Min(appendCount[r], MaxMessages))
  /\ \A r \in Rooms : \A q \in Rooms : \A i \in 1..Len(messages[q]) :
       messages[q][i].room = r => messages[q][i].seq > appendCount[r] - MaxMessages
  /\ (Handled("load_messages") /\ last.room \in Rooms) =>
       /\ \A i \in 1..Len(ack.messages) :
            ack.messages[i].seq > appendCount[last.room] - MaxMessages
       /\ (last.limit = MaxMessages /\ last.offset = 0) =>
            /\ ack.messages = messages[last.room]
            /\ [i \in 1..Len(ack.messages) |-> ack.messages[i].seq]
                 = LastSeqs(appendCount[last.room],
                            Min(appendCount[last.room], MaxMessages))

\* the whole window is read back from a log that has evicted
C2_Witness ==
  /\ Handled("load_messages")
  /\ last.room \in Rooms
  /\ last.limit = MaxMessages /\ last.offset = 0
  /\ appendCount[last.room] > MaxMessages
  /\ Len(ack.messages) = MaxMessages

\* C3: every message created by send_message, send_file or private_message
\* gets an id strictly greater than the id of the message created before it.
C3_IdsStrictlyIncrease == Created => last.id > last.prevId

\* the connections whose registry entry places them in room r
Members(r) == {t \in Open : users[t] # NoUser /\ users[t].currentRoom = r}
\* the emissions of the last handler that carry the named event
EmittedOf(event) == {i \in 1..Len(emitted) : emitted[i].event = event}

\* C4: when a joined connection s sends a text message to room R, the
\* acknowledgment carries success and the id of the stored message, the
\* handler emits exactly one receive_message, which reaches every other
\* member of R (by the registry and by Socket.io's rooms) and carries s's
\* username and the body sent, and it does not reach s.
C4_SendReachesOthers ==
  (Handled("send_message") /\ last.user # NoUser) =>
    LET log == messages[last.room]
        stored == log[Len(log)]
    IN
    /\ stored.id = last.id /\ stored.message = last.body
    /\ last.hasCallback =>
         ack = [success |-> TRUE, messageId |-> stored.id] /\ ack.messageId > 0
    /\ ~last.hasCallback => ack = NoAck
    /\ Cardinality(EmittedOf("receive_message")) = 1
    /\ Len(emitted) = 1
    /\ emitted[1].to = InRoom(last.room) \ {last.sid}
    /\ Members(last.room) \ {last.sid} \subseteq emitted[1].to
    /\ last.sid \notin emitted[1].to
    /\ emitted[1].data.sender = last.user.username
    /\ emitted[1].data.message = last.body
    /\ emitted[1].data.id = stored.id

\* a member of a room sends to it, with a callback, while one other
\* connection is a member of the room and a third, open, is not
C4_Witness ==
  /\ Handled("send_message") /\ last.user # NoUser /\ last.hasCallback
  /\ last.sid \in Members(last.room)
  /\ \E t \in Members(last.room) \ {last.sid} : t \in emitted[1].to
  /\ \E t \in Open \ {last.sid} : t \notin emitted[1].to

\* the stored messages an id names: (room, position) pairs
Named(msgs, messageId) ==
  {p \in UNION {{<<r, i>> : i \in 1..Len(msgs[r])} : r \in Rooms} :
     msgs[p[1]][p[2]].id = messageId}
\* the one of them the handlers' search finds
FirstNamed(msgs, messageId) ==
  LET k == FindRoom(msgs, messageId)
  IN  <<rooms[k], FindIndex(msgs[rooms[k]], messageId)>>
\* a message's count for a reaction, 0 while it has none
ReactionCount(m, reaction) ==
  IF HasField(m, "reactions") THEN m.reactions[reaction] ELSE 0
\* the step is the named handler, run by a registered connection
StepOf(op) == last.op = "idle" /\ last'.op = op /\ last'.user # NoUser

\* C5: every add_reaction event from a joined connection adds one to the
\* named symbol's count of the stored message it names and reports the new
\* count, so k events report 1, 2, ..., k and leave the count at k.
C5_EveryReactionCounted ==
  [][StepOf("add_reaction") =>
       \A p \in Named(messages, last'.messageId) :
         LET before == ReactionCount(messages[p[1]][p[2]], last'.reaction)
             after == ReactionCount(messages'[p[1]][p[2]], last'.reaction)
         IN  /\ after = before + 1
             /\ Len(emitted') = 1
             /\ emitted'[1].event = "reaction_added"
             /\ emitted'[1].data.count = after]_vars

\* what does hold: the event is counted on the first stored message with
\* the id, and on no other
ReactionCountedOnFirstMatch ==
  [][(StepOf("add_reaction") /\ last'.found # 0) =>
       LET f == FirstNamed(messages, last'.messageId)
       IN  /\ ReactionCount(messages'[f[1]][f[2]], last'.reaction)
                = ReactionCount(messages[f[1]][f[2]], last'.reaction) + 1
           /\ emitted'[1].data.count
                = ReactionCount(messages'[f[1]][f[2]], last'.reaction)
           /\ emitted'[1].to = Open
           /\ \A r \in Rooms : \A i \in 1..Len(messages[r]) :
                <<r, i>> # f => messages'[r][i] = messages[r][i]]_vars

\* how often x occurs in arr
Occurrences(arr, x) == Cardinality({i \in 1..Len(arr) : arr[i] = x})
ReadBy(m) == IF HasField(m, "readBy") THEN m.readBy ELSE <<>>

\* C6: after a mark_read event from a connection with username u, the
\* readBy of the stored message it names holds u exactly once, whatever the
\* number of such events before; the event is broadcast as message_read if
\* it is the first for (message, u) and otherwise changes and emits nothing.
C6_MarkReadIdempotent ==
  [][StepOf("mark_read") =>
       \A p \in Named(messages, last'.messageId) :
         LET u == last'.user.username
             before == ReadBy(messages[p[1]][p[2]])
             after == ReadBy(messages'[p[1]][p[2]])
         IN  /\ Occurrences(after, u) = 1
             /\ IF Includes(before, u)
                  THEN messages' = messages /\ emitted' = <<>>
                  ELSE /\ after = Append(before, u)
                       /\ Len(emitted') = 1
                       /\ emitted'[1].event = "message_read"
                       /\ emitted'[1].to = Open']_vars

\* what does hold: the first stored message with the id is marked once
MarkReadOnFirstMatch ==
  /\ [](\A r \in Rooms : \A i \in 1..Len(messages[r]) : \A u \in Usernames :
         Occurrences(ReadBy(messages[r][i]), u) <= 1)
  /\ [][(StepOf("mark_read") /\ last'.found # 0) =>
         LET f == FirstNamed(messages, last'.messageId)
             u == last'.user.username
             before == ReadBy(messages[f[1]][f[2]])
             after == ReadBy(messages'[f[1]][f[2]])
         IN  /\ Occurrences(after, u) = 1
             /\ IF Includes(before, u)
                  THEN messages' = messages /\ emitted' = <<>>
                  ELSE /\ after = Append(before, u)
                       /\ Len(emitted') = 1
                       /\ emitted'[1].event = "message_read"
                       /\ emitted'[1].to = Open']_vars

\* the log a load_messages request reads, and its length
Loaded == RoomMessages(last.room)
\* positions lo+1 .. hi of a log (0-based: lo up to, excluding, hi)
Window(log, lo, hi) == [i \in 1..(hi - lo) |-> log[lo + i]]

\* C7: for a log of length L, limit > 0 and 0 <= offset <= L, the answer is
\* the messages at 0-based positions max(0, L-limit-offset) up to, excluding,
\* L-offset in log order, and hasMore says whether a stored message is older
\* than the window's start; with L = 50 and limit = 20 the offsets 0, 20, 40
\* give positions 30-49, 10-29 and 0-9 with hasMore true, true, false.
C7_PageWindow ==
  (Handled("load_messages") /\ last.limit > 0 /\ last.offset >= 0
     /\ last.offset <= Len(Loaded)) =>
    LET L == Len(Loaded)
        lo == Max(0, L - last.limit - last.offset)
        hi == L - last.offset
    IN
    /\ ack.success = TRUE
    /\ ack.messages = Window(Loaded, lo, hi)
    /\ ack.hasMore = (\E j \in 1..L : j <= lo)
    /\ (L = 50 /\ last.limit = 20) =>
         /\ last.offset = 0 =>
              ack.messages = SubSeq(Loaded, 31, 50) /\ ack.hasMore = TRUE
         /\ last.offset = 20 =>
              ack.messages = SubSeq(Loaded, 11, 30) /\ ack.hasMore = TRUE
         /\ last.offset = 40 =>
              ack.messages = SubSeq(Loaded, 1, 10) /\ ack.hasMore = FALSE

\* the last page of a log of 50: the 10 oldest, and nothing older
C7_Witness ==
  /\ Handled("load_messages")
  /\ Len(Loaded) = 50 /\ last.limit = 20 /\ last.offset = 40
  /\ Len(ack.messages) = 10 /\ ack.messages[1] = Loaded[1]
  /\ ack.hasMore = FALSE

\* C8: a load_messages request whose offset is at least the log's length is
\* answered with an empty list, for every length and every limit.
C8_PastTheLogIsEmpty ==
  (Handled("load_messages") /\ last.offset >= Len(Loaded)) =>
    ack.success = TRUE /\ ack.messages = <<>>

\* the connections that have disconnected
Closed == {t \in Sessions : conn[t] = "closed"}
\* the emissions of the last handler
Emissions == {emitted[i] : i \in 1..Len(emitted)}

\* C9: once a connection has disconnected (typing in "general" or not), no
\* typing_users event for "general" counts an entry of that connection among
\* the names it lists, and no user_list event holds its record; the stores
\* hold nothing of it.
C9_GoneAfterDisconnect ==
  /\ \A t \in Closed : users[t] = NoUser /\ typingUsers[t] = NoTyping
  /\ \A e \in Emissions :
       /\ (e.event = "typing_users" /\ e.data.room = "general") =>
            /\ e.data.from \cap Closed = {}
            /\ \A u \in Usernames :
                 e.data.users[u] =
                   Cardinality({t \in e.data.from : typingUsers[t].username = u})
       /\ e.event = "user_list" => \A r \in e.data : r.id \notin Closed
       /\ e.to \cap Closed = {}

\* a connection typing in "general" has just disconnected while another is
\* still typing there: the handler's typing_users lists the other one only
C9_Witness ==
  /\ Handled("disconnect")
  /\ last.typing # NoTyping /\ last.typing.room = "general"
  /\ \E e \in Emissions :
       /\ e.event = "typing_users" /\ e.data.room = "general"
       /\ e.data.from # {} /\ last.sid \notin e.data.from
  /\ \E e \in Emissions : e.event = "user_list" /\ e.data # {}

\* C10: a private_message from connection S1 addressed to another open
\* connection S2 delivers one private_message event to S2, with isPrivate
\* true, senderId S1 and the body sent; and no private_message event changes
\* a room log or the number of appends made to it.
C10_PrivateDelivered ==
  /\ []((Handled("private_message") /\ last.to \in Open \ {last.sid}) =>
          /\ Len(emitted) = 1
          /\ emitted[1].event = "private_message"
          /\ last.to \in emitted[1].to
          /\ emitted[1].data.isPrivate = TRUE
          /\ emitted[1].data.senderId = last.sid
          /\ emitted[1].data.message = last.body)
  /\ [][(last.op = "idle" /\ last'.op = "private_message") =>
          messages' = messages /\ appendCount' = appendCount]_vars

\* what does hold: the event goes to the connections in the room named by
\* the recipient's id, the recipient among them while it has not left that
\* room, and the logs stay as they are
PrivateToRoomOfId ==
  /\ []((Handled("private_message") /\ last.to \in Open \ {last.sid}) =>
          /\ Len(emitted) = 1
          /\ emitted[1].event = "private_message"
          /\ emitted[1].to = InRoom(last.to) \ {last.sid}
          /\ emitted[1].data.isPrivate = TRUE
          /\ emitted[1].data.senderId = last.sid
          /\ emitted[1].data.message = last.body)
  /\ [][(last.op = "idle" /\ last'.op = "private_message") =>
          messages' = messages /\ appendCount' = appendCount]_vars

\* C11: whatever the `to` field of a private_message names (a connection's
\* id, a configured room, anything else), the event reaches no connection
\* other than the one whose id is `to`.
C11_PrivateOnlyToRecipient ==
  Handled("private_message") =>
    \A e \in Emissions : \A t \in e.to : t = last.to

\* the handlers the registry is to guard
MessagingOps ==
  {"send_message", "send_file", "private_message", "typing", "add_reaction",
   "mark_read"}

\* C12: a send_message, send_file, private_message, typing, add_reaction or
\* mark_read event from a connection without a registry entry changes no log
\* or message and no typing state, and reaches no other connection.
C12_UnregisteredRejected ==
  [][(last.op = "idle" /\ last'.op \in MessagingOps /\ last'.user = NoUser
        /\ ~crashed') =>
       /\ messages' = messages
       /\ typingUsers' = typingUsers
       /\ \A i \in 1..Len(emitted') : emitted'[i].to \subseteq {last'.sid}]_vars

\* C13: a send_message from a connection without a registry entry, to a
\* configured room, runs to its end: the message is the newest of the room's
\* log with sender "Anonymous", the callback gets success and the id, and
\* one receive_message with the stored message goes to the room's other
\* connections.
C13_AnonymousSendStored ==
  /\ [](last.op = "send_message" /\ last.user = NoUser /\ last.room \in Rooms
          => ~crashed)
  /\ []((Handled("send_message") /\ last.user = NoUser) =>
          LET log == messages[last.room]
              stored == log[Len(log)]
          IN
          /\ stored.sender = "Anonymous" /\ stored.senderId = last.sid
          /\ stored.id = last.id /\ stored.message = last.body
          /\ stored.room = last.room
          /\ last.hasCallback =>
               ack = [success |-> TRUE, messageId |-> stored.id]
          /\ emitted = << Emit("receive_message",
                               InRoom(last.room) \ {last.sid}, stored) >>)
  /\ [][(last.op = "idle" /\ last'.op = "send_message" /\ ~crashed') =>
          appendCount'[last'.room] = appendCount[last'.room] + 1]_vars

\* an unregistered connection has sent, with a callback, to a room in which
\* a registered connection receives the message
C13_Witness ==
  /\ Handled("send_message") /\ last.user = NoUser /\ last.hasCallback
  /\ ack # NoAck
  /\ \E t \in Members(last.room) : t \in emitted[1].to
  /\ emitted[1].data.sender = "Anonymous"

\* C14: a send_message or send_file naming a room outside the configured
\* set raises no exception in the handler: the process keeps running, the
\* caller gets an error result and the stores stay as they are.
C14_UnknownRoomIsAnError ==
  (last.op \in {"send_message", "send_file"} /\ last.room \notin Rooms) =>
    ~crashed

\* C15: every registered connection's currentRoom is a configured room.
C15_CurrentRoomConfigured ==
  \A s \in Sessions : users[s] # NoUser => users[s].currentRoom \in Rooms

\* how many of the last handler's emissions of the event reach connection t
Deliveries(t, event) ==
  Cardinality({i \in EmittedOf(event) : t \in emitted[i].to})

\* C16: a send_file to room R appends one file message to R's log, and of
\* the receive_file events emitted exactly one reaches each connection in R
\* other than the sender (every registry member of R among them), exactly
\* one reaches the sender, member of R or not, and none reaches anyone else.
C16_FileReachesEachOnce ==
  /\ [](Handled("send_file") =>
          LET log == messages[last.room]
              stored == log[Len(log)]
          IN
          /\ stored.isFile = TRUE /\ stored.fileName = last.fileName
          /\ stored.id = last.id /\ stored.room = last.room
          /\ stored.senderId = last.sid
          /\ \A i \in 1..Len(emitted) :
               emitted[i].event = "receive_file" /\ emitted[i].data = stored
          /\ Members(last.room) \subseteq InRoom(last.room)
          /\ \A t \in Sessions :
               Deliveries(t, "receive_file") =
                 IF t = last.sid \/ t \in InRoom(last.room) THEN 1 ELSE 0)
  /\ [][(last.op = "idle" /\ last'.op = "send_file" /\ ~crashed') =>
          /\ appendCount' = [appendCount EXCEPT ![last'.room] = @ + 1]
          /\ \A r \in Rooms \ {last'.room} : messages'[r] = messages[r]
          /\ Len(messages'[last'.room])
               = Min(Len(messages[last'.room]) + 1, MaxMessages)]_vars

\* a registered connection has sent a file to a room it is not in, where
\* another registered connection is
C16_Witness ==
  /\ Handled("send_file")
  /\ last.user # NoUser /\ last.sid \notin InRoom(last.room)
  /\ Deliveries(last.sid, "receive_file") = 1
  /\ \E t \in Members(last.room) : Deliveries(t, "receive_file") = 1

\* C17: a join_room(R) from a registered connection sets its currentRoom to
\* R (its username stays) and emits one room_messages, to that connection
\* alone, holding R's log as it is: at most 100 messages, in append order;
\* the logs themselves do not change.
C17_JoinRoomShowsLog ==
  /\ []((Handled("join_room") /\ last.user # NoUser) =>
          LET log == IF last.room \in Rooms THEN messages[last.room] ELSE <<>>
          IN
          /\ users[last.sid].currentRoom = last.room
          /\ users[last.sid].username = last.user.username
          /\ last.room \in socketRooms[last.sid]
          /\ emitted = << Emit("room_messages", {last.sid}, log) >>
          /\ Len(log) <= MaxMessages
          /\ \A i \in 1..(Len(log) - 1) : log[i].seq + 1 = log[i + 1].seq)
  /\ [][(last.op = "idle" /\ last'.op = "join_room") =>
          messages' = messages /\ appendCount' = appendCount]_vars

\* a connection has moved to "random" and back to "general", whose log has
\* overflowed: it is shown the 100 messages the log keeps
C17_Witness ==
  /\ Handled("join_room") /\ last.user # NoUser
  /\ last.room = "general" /\ last.user.currentRoom = "random"
  /\ appendCount["general"] > MaxMessages
  /\ Len(emitted[1].data) = MaxMessages
  /\ emitted[1].data[1].seq = 2

\* the stored messages: (room, position) pairs
Positions(msgs) == UNION {{<<r, i>> : i \in 1..Len(msgs[r])} : r \in Rooms}

\* C18: an add_reaction from a connection without a registry entry changes
\* and emits nothing; from a registered one, naming an id some log holds, it
\* adds one to that reaction's count of one stored message with the id,
\* changes no other message and emits exactly one reaction_added, to every
\* open connection, whose count is that message's stored count.
C18_ReactionBroadcast ==
  /\ [][(last.op = "idle" /\ last'.op = "add_reaction" /\ last'.user = NoUser)
          => /\ emitted' = <<>>
             /\ messages' = messages /\ users' = users
             /\ typingUsers' = typingUsers]_vars
  /\ [][(StepOf("add_reaction") /\ Named(messages, last'.messageId) # {}) =>
          \E p \in Named(messages, last'.messageId) :
            LET before == ReactionCount(messages[p[1]][p[2]], last'.reaction)
                after == ReactionCount(messages'[p[1]][p[2]], last'.reaction)
            IN  /\ after = before + 1
                /\ \A q \in Positions(messages) \ {p} :
                     messages'[q[1]][q[2]] = messages[q[1]][q[2]]
                /\ Positions(messages') = Positions(messages)
                /\ emitted' = << Emit("reaction_added", Open,
                                      [messageId |-> last'.messageId,
                                       reaction |-> last'.reaction,
                                       count |-> after]) >>]_vars

\* the second reaction of a kind on a message, reported to two connections
C18_Witness ==
  /\ Handled("add_reaction") /\ last.user # NoUser /\ last.found # 0
  /\ Len(emitted) = 1
  /\ emitted[1].data.count = 2
  /\ Cardinality(emitted[1].to) = 2

\* C19: an add_reaction or mark_read whose messageId no stored message has
\* (never assigned, a private message's, evicted) runs to its end, changes
\* no message, log, registry entry or typing entry and emits nothing.
C19_MissingIdIgnored ==
  [][(last.op = "idle" /\ last'.op \in {"add_reaction", "mark_read"}
        /\ Named(messages, last'.messageId) = {}) =>
       /\ ~crashed'
       /\ emitted' = <<>>
       /\ messages' = messages /\ appendCount' = appendCount
       /\ users' = users /\ typingUsers' = typingUsers]_vars

\* a registered connection has reacted to the id of a message its log has
\* evicted
C19_Witness ==
  /\ Handled("add_reaction") /\ last.user # NoUser
  /\ last.messageId = 1
  /\ appendCount["general"] > MaxMessages
  /\ Named(messages, 1) = {}
  /\ emitted = <<>>

\* what a log, a limit and an offset determine: the positions from
\* max(0, L-limit-offset) up to L-offset, an end below 0 counted from the
\* log's end, and whether the start is past the log's first message
Answer(log, limit, offset) ==
  LET L == Len(log)
      lo == Max(0, L - limit - offset)
      end == L - offset
      hi == IF end < 0 THEN Max(L + end, 0) ELSE Min(end, L)
  IN  [success |-> TRUE,
       messages |-> IF lo >= hi THEN <<>> ELSE Window(log, lo, hi),
       hasMore |-> lo > 0]

\* C20: the answer to a load_messages is a function of the named room's
\* log, the limit and the offset alone, the same for a registered and an
\* unregistered caller; and the handler emits nothing and changes no
\* registry entry, typing entry, room membership or log.
C20_LoadIsReadOnly ==
  /\ [](Handled("load_messages") =>
          ack = Answer(IF last.room \in Rooms THEN messages[last.room]
                                                ELSE <<>>,
                       last.limit, last.offset))
  /\ [][(last.op = "idle" /\ last'.op = "load_messages") =>
          /\ emitted' = <<>>
          /\ users' = users /\ typingUsers' = typingUsers
          /\ socketRooms' = socketRooms
          /\ messages' = messages /\ appendCount' = appendCount]_vars

\* an unregistered connection is answered with messages while another
\* connection is registered and typing
C20_Witness ==
  /\ Handled("load_messages")
  /\ users[last.sid] = NoUser
  /\ ack.messages # <<>>
  /\ \E t \in Open \ {last.sid} : users[t] # NoUser /\ typingUsers[t] # NoTyping

\* the last handler changed the registry: a user_join, a join_room of a
\* registered connection or the disconnect of one
RegistryChanged ==
  \/ Handled("user_join")
  \/ Handled("join_room") /\ last.user # NoUser
  \/ Handled("disconnect") /\ last.user # NoUser
\* the last handler sent the registry, as it now is, to every open connection
UserListSent ==
  \E e \in Emissions :
    e.event = "user_list" /\ e.to = Open /\ e.data = UserList(users)

\* C21: every handler that changes the registry (user_join, join_room,
\* disconnect of a registered connection) broadcasts a user_list holding the
\* registry's entries as they are after the change.
C21_UserListAfterChange == RegistryChanged => UserListSent

\* what does hold: user_join and disconnect broadcast it
UserListAfterJoinOrLeave ==
  (Handled("user_join") \/ Handled("disconnect")) => UserListSent

\* C22: a typing_users event for room R reaches only connections in R, and
\* never the connection whose typing or disconnect caused it.
C22_TypingUsersToRoomOnly ==
  \A e \in Emissions :
    e.event = "typing_users" =>
      e.to \subseteq InRoom(e.data.room) /\ last.sid \notin e.to

\* what does hold: the typing handler's event goes to the room's other
\* connections
TypingUsersOfTypingToRoom ==
  Handled("typing") =>
    \A e \in Emissions :
      e.event = "typing_users" /\ e.data.room = last.room
      /\ e.to = InRoom(last.room) \ {last.sid}

\* C23: when a connection with a typing entry for a configured room R
\* disconnects, the handler sends the connections left in R a typing_users
\* for R that no longer counts that connection.
C23_TypingClearedInEveryRoom ==
  (Handled("disconnect") /\ last.typing # NoTyping
     /\ last.typing.room \in Rooms) =>
    \A t \in Members(last.typing.room) :
      \E e \in Emissions :
        /\ e.event = "typing_users" /\ e.data.room = last.typing.room
        /\ last.sid \notin e.data.from
        /\ t \in e.to

\* C24: the list of every typing_users event for room R is the usernames of
\* the connections holding a typing entry for R when it is emitted, one
\* name per such connection.
C24_TypingListIsCurrent ==
  \A e \in Emissions :
    e.event = "typing_users" =>
      LET holders == TypingIn(typingUsers, e.data.room)
      IN  /\ e.data.from = holders
          /\ \A t \in holders : users[t] # NoUser
          /\ \A u \in Usernames :
               e.data.users[u] =
                 Cardinality({t \in holders : users[t].username = u})

\* what does hold: the list is the names the entries for R were made with
TypingListIsEntryNames ==
  \A e \in Emissions :
    e.event = "typing_users" =>
      LET holders == TypingIn(typingUsers, e.data.room)
      IN  /\ e.data.from = holders
          /\ \A t \in holders : users[t] # NoUser
          /\ \A u \in Usernames :
               e.data.users[u] =
                 Cardinality({t \in holders : typingUsers[t].username = u})

\* the step ends a connection's typing: a typing event with isTyping false,
\* or its disconnect
EndsTyping ==
  /\ last.op = "idle"
  /\ \/ last'.op = "typing" /\ ~last'.isTyping
     \/ last'.op = "disconnect"

\* C25: on the typing state a typing event with isTyping false and a
\* disconnect do the same: each leaves the state as it was but for the
\* connection's entry, which is gone; so a second one of either kind, after
\* one of either kind, changes nothing.
C25_TypingOffIsDisconnect ==
  [][EndsTyping =>
       /\ typingUsers' = [typingUsers EXCEPT ![last'.sid] = NoTyping]
       /\ typingUsers[last'.sid] = NoTyping => typingUsers' = typingUsers]_vars

\* a registered connection that had stopped typing disconnects while another
\* one is typing: the typing state stays as it was
C25_Witness ==
  /\ Handled("disconnect")
  /\ last.user # NoUser /\ last.typing = NoTyping
  /\ \E t \in Open : typingUsers[t] # NoTyping

\* C26: while a connection stays registered its username is the one it
\* registered with, and a further user_join on it changes neither its
\* username nor its currentRoom.
C26_UsernameImmutable ==
  [][\A s \in Sessions :
       (users[s] # NoUser /\ users'[s] # NoUser) =>
         /\ users'[s].username = users[s].username
         /\ last'.op = "user_join" => users'[s] = users[s]]_vars

\* what does hold: no handler other than user_join changes a username
UsernameKeptButByUserJoin ==
  [][\A s \in Sessions :
       (users[s] # NoUser /\ users'[s] # NoUser /\ last'.op # "user_join") =>
         users'[s].username = users[s].username]_vars

\* C27: the disconnect handler never fails; it removes the connection's
\* registry and typing entries and nothing else, leaves the room logs alone,
\* and emits user_left exactly when it removed a registry entry; run again
\* for a connection already torn down it changes no store and emits no
\* user_left, so a joined session's user_left goes out at most once.
TornDown ==
  \A s \in Closed : users[s] = NoUser /\ typingUsers[s] = NoTyping
UserLeftSent == \E e \in Emissions : e.event = "user_left"
DisconnectStep ==
  (last.op = "idle" /\ last'.op = "disconnect") =>
    /\ ~crashed'
    /\ users' = [users EXCEPT ![last'.sid] = NoUser]
    /\ typingUsers' = [typingUsers EXCEPT ![last'.sid] = NoTyping]
    /\ messages' = messages
    /\ UserLeftSent' <=> users[last'.sid] # NoUser
    /\ ~last'.first =>
         /\ users' = users /\ typingUsers' = typingUsers
         /\ ~UserLeftSent'
C27_DisconnectIdempotent == []TornDown /\ [][DisconnectStep]_vars
\* the handler has run a second time for a connection already torn down,
\* beside registered connections and logs that hold messages
C27_Witness ==
  /\ Handled("disconnect") /\ ~last.first
  /\ \E t \in Open : users[t] # NoUser
  /\ messages["general"] # <<>>
\* the handler has run for a connection that never joined
NeverJoinedLeft ==
  Handled("disconnect") /\ last.first /\ last.user = NoUser

\* C28: a private_message event with a callback is acknowledged with success
\* and the assigned id whatever `to` names, and when `to` is not the id of an
\* open connection the event is delivered to nobody.
C28_AckWhateverRecipient ==
  Handled("private_message") =>
    /\ last.hasCallback => ack = [success |-> TRUE, messageId |-> last.id]
    /\ last.to \notin Open => \A e \in Emissions : e.to = {}

\* what does hold: the acknowledgment carries the assigned id whoever `to`
\* names, no store changes, and an event for a `to` that is not an open
\* connection reaches only connections that joined a room of that name
PrivateAckedAndStoresKept ==
  /\ [](Handled("private_message") =>
          /\ last.hasCallback => ack = [success |-> TRUE, messageId |-> last.id]
          /\ ~last.hasCallback => ack = NoAck
          /\ last.to \notin Open =>
               \A e \in Emissions : e.to = InRoom(last.to) \ {last.sid})
  /\ [][(last.op = "idle" /\ last'.op = "private_message") =>
          /\ messages' = messages /\ users' = users
          /\ typingUsers' = typingUsers /\ socketRooms' = socketRooms]_vars
\* a private message with a callback to a connection that has left
PrivateToGoneAcked ==
  /\ Handled("private_message") /\ last.hasCallback
  /\ last.to \in Closed /\ emitted[1].to = {}

\* C29: a room's log keeps its messages in the order they were appended in,
\* whatever is appended, evicted, reacted to or marked read, and a message
\* that stays in the log keeps every field other than reactions and readBy.
Core(m) == [f \in DOMAIN m \ {"reactions", "readBy"} |-> m[f]]
\* neighbours are in append order, hence any two messages of a log are
InAppendOrder ==
  \A r \in Rooms : \A i \in 1..(Len(messages[r]) - 1) :
    messages[r][i].seq < messages[r][i + 1].seq
\* a message of the next log that the log holds (the message appended at the
\* same position: seq is part of Core) is in it with the same fields
CoreKept ==
  \A r \in Rooms :
    \/ messages'[r] = messages[r]
    \/ LET seqs == {messages[r][i].seq : i \in DOMAIN messages[r]}
           cores == {Core(messages[r][i]) : i \in DOMAIN messages[r]}
       IN  \A j \in DOMAIN messages'[r] :
             messages'[r][j].seq \in seqs => Core(messages'[r][j]) \in cores
C29_StoredMessagesStable == []InAppendOrder /\ [][CoreKept]_vars
\* a log that has evicted its oldest message for one appended in the run
\* holds a message that was reacted to or marked read
C29_Witness ==
  \E r \in Rooms :
    /\ appendCount[r] > MaxMessages /\ Len(messages[r]) = MaxMessages
    /\ \E i \in DOMAIN messages[r] :
         \/ \E x \in Reactions : ReactionCount(messages[r][i], x) > 0
         \/ ReadBy(messages[r][i]) # <<>>

\* C30: a send_message event with a callback appends the message and applies
\* the eviction, then acknowledges, then fans out, each once and in this
\* order; the id acknowledged is the id of the message stored and of the
\* message fanned out.
StepAt(steps, x) == CHOOSE i \in DOMAIN steps : steps[i] = x
Fresh == last.op = "idle" /\ last'.op # "idle"
JoinedOrLeftStep ==
  Fresh =>
    /\ (\E e \in Emissions' : e.event \in {"user_joined", "user_left"}) =>
         last'.op \in {"user_join", "disconnect"} /\ messages' = messages
    /\ last'.op = "user_join" =>
         /\ Cardinality({i \in DOMAIN emitted' :
                           emitted'[i].event = "user_joined"}) = 1
         /\ \A e \in Emissions' :
              e.event = "user_joined" =>
                /\ e.to = {t \in Sessions : conn'[t] = "open"}
                /\ e.data = [username |-> last'.username, id |-> last'.sid]
    /\ \A e \in Emissions' :
         e.event = "user_left" =>
           /\ last'.op = "disconnect" /\ e.data.id = last'.sid
           /\ users[last'.sid] # NoUser
           /\ e.data.username = users[last'.sid].username
    /\ \A s \in Sessions :
         (users[s] = NoUser /\ users'[s] # NoUser) =>
           \E e \in Emissions' : e.event = "user_joined" /\ e.data.id = s
C31_JoinLeaveNotStored == [][JoinedOrLeftStep]_vars
\* a connection that had joined has left, beside logs that hold messages and
\* another open connection: user_left went out
C31_Witness ==
  /\ Handled("disconnect") /\ last.user # NoUser
  /\ \E e \in Emissions : e.event = "user_left" /\ e.to # {}
  /\ messages["general"] # <<>>

\* C34: a registered connection is subscribed, apart from the room of its own
\* id, to its registry currentRoom and to no other room, and a
\* receive_message reaches no registered connection whose currentRoom is not
\* the message's room.
C34_SubscribedToCurrentRoomOnly ==
  /\ \A s \in Open :
       users[s] # NoUser => socketRooms[s] \ {s} = {users[s].currentRoom}
  /\ \A e \in Emissions :
       e.event = "receive_message" =>
         \A t \in e.to :
           users[t] # NoUser => users[t].currentRoom = e.data.room

\* what does hold: a registered connection is subscribed to its currentRoom
CurrentRoomSubscribed ==
  \A s \in Open : users[s] # NoUser => users[s].currentRoom \in socketRooms[s]
\* a connection whose currentRoom is "general" gets a message to "random"
OutsideCurrentRoomReached ==
  \E e \in Emissions :
    /\ e.event = "receive_message" /\ e.data.room = "random"
    /\ \E t \in e.to : users[t] # NoUser /\ users[t].currentRoom = "general"

\* C35: every typing entry is held by a registered connection and names the
\* currentRoom of that connection.
C35_TypingInCurrentRoom ==
  \A s \in Sessions :
    typingUsers[s] # NoTyping =>
      users[s] # NoUser /\ typingUsers[s].room = users[s].currentRoom

\* what does hold: a typing entry is held by a registered connection
TypingHeldByRegistered ==
  \A s \in Sessions : typingUsers[s] # NoTyping => users[s] # NoUser

\* C36: whatever a send_message payload supplies for sender, senderId, id,
\* timestamp, reactions and readBy, the message stored and fanned out has the
\* sender's registry username or "Anonymous", the sender's connection id, the
\* id and timestamp the server assigned, no reactions and an empty readBy.
IdentityFields ==
  {"sender", "senderId", "id", "timestamp", "reactions", "readBy"}
Identity(m) == [f \in IdentityFields |-> m[f]]
C36_IdentityFromServer ==
  (Handled("send_message") /\ HasField(last, "payload")) =>
    LET log == messages[last.room]
        stored == log[Len(log)]
        name == IF users[last.sid] # NoUser THEN users[last.sid].username
                ELSE "Anonymous"
    IN  /\ Identity(stored)
             = [sender |-> name, senderId |-> last.sid, id |-> last.id,
                timestamp |-> last.id,
                reactions |-> [r \in Reactions |-> 0], readBy |-> <<>>]
        /\ stored.message = last.payload.message
        /\ emitted[1].event = "receive_message"
        /\ emitted[1].data = stored
\* a registered connection sent a payload that supplies all six fields
C36_Witness ==
  /\ Handled("send_message") /\ HasField(last, "payload")
  /\ IdentityFields \subseteq DOMAIN last.payload
  /\ last.user # NoUser /\ last.user.username # last.payload.sender
\* an unregistered connection sent a payload that supplies a sender
ForgedAnonymous ==
  /\ Handled("send_message") /\ HasField(last, "payload")
  /\ HasField(last.payload, "sender") /\ last.user = NoUser

\* C32: no answer to loadMoreMessages brings a message the hook's list holds
\* already, and after the answer hasMoreMessages is the hasMore of the
\* answer.
LoadAnswered ==
  /\ client.mounted /\ client.inbox # <<>>
  /\ Head(client.inbox).kind = "ack"
  /\ Head(client.inbox).of.event = "load_messages"
  /\ client'.inbox = Tail(client.inbox)
BringsNothingHeld ==
  LoadAnswered =>
    LET response == Head(client.inbox).response
    IN  \A i \in DOMAIN response.messages, j \in DOMAIN client.messages :
          response.messages[i] # client.messages[j]
FlagIsHasMore ==
  LoadAnswered =>
    client'.hasMoreMessages = Head(client.inbox).response.hasMore
C32_PagesWalkBackward == [][BringsNothingHeld /\ FlagIsHasMore]_vars

\* each half alone
C32_NoDuplicatePrepended == [][BringsNothingHeld]_vars
C32_FlagFollowsServer == [][FlagIsHasMore]_vars
\* what does hold: every request asks for the newest PageLimit messages of
\* the hook's room, the answer goes in front of the list, and the flag says
\* whether the answer was a full page
LoadsTheNewestPage ==
  [][LoadAnswered =>
       LET response == Head(client.inbox).response
           request == Head(client.inbox).of
       IN  /\ request.payload = [room |-> request.payload.room,
                                 limit |-> PageLimit]
           /\ client'.messages = response.messages \o client.messages
           /\ client'.hasMoreMessages
                = (Len(response.messages) = PageLimit)
           /\ response
                = Answer(messages[request.payload.room], PageLimit, 0)]_vars

\* C33: a message of the hook's list changes from 'pending' only when the
\* acknowledgment of its own sendMessage call arrives, then to 'delivered'
\* with the id the server assigned or to 'failed'; that acknowledgment
\* changes no other message of the list; a 'delivered' message stays so.
StatusOf(m) == IF HasField(m, "status") THEN m.status ELSE "none"
SendAnswered ==
  /\ client.inbox # <<>>
  /\ Head(client.inbox).kind = "ack"
  /\ Head(client.inbox).of.event = "send_message"
  /\ client'.inbox = Tail(client.inbox)
OwnOf(m) ==
  SendAnswered /\ HasField(m, "n") /\ m.n = Head(client.inbox).of.n
Reconciled ==
  \A i \in DOMAIN client.messages :
    LET before == client.messages[i]
        after == client'.messages[i]
        response == Head(client.inbox).response
    IN  /\ i \in DOMAIN client'.messages
        /\ IF OwnOf(before)
             THEN IF response.success
                    THEN /\ StatusOf(after) = "delivered"
                         /\ after.id = response.messageId
                    ELSE StatusOf(after) = "failed"
             ELSE /\ SendAnswered => after = before
                  /\ StatusOf(before) = "pending" =>
                       StatusOf(after) = "pending"
        /\ StatusOf(before) = "delivered" => StatusOf(after) = "delivered"
C33_OwnAckReconciles == [][client.mounted => Reconciled]_vars

\* what does hold: the acknowledgment of a call marks the call's own message
\* 'delivered' with the id the server assigned, and a 'delivered' message
\* stays 'delivered'
OwnAckDelivers ==
  [][client.mounted =>
       \A i \in DOMAIN client.messages :
         /\ i \in DOMAIN client'.messages
         /\ OwnOf(client.messages[i]) =>
              /\ StatusOf(client'.messages[i]) = "delivered"
              /\ client'.messages[i].id
                   = Head(client.inbox).response.messageId
         /\ StatusOf(client.messages[i]) = "delivered" =>
              StatusOf(client'.messages[i]) = "delivered"]_vars

====
